---------------------------- MODULE Spec2Model ----------------------------
(***************************************************************************)
(* Doctor assignment and queue sequencing of the health_scan_connect       *)
(* backend: the symptom classifier, the doctor scorer and the queue-number *)
(* generator of the Queue model, driven by the registration, check-in and  *)
(* queue-removal routes.                                                   *)
(***************************************************************************)
EXTENDS Integers, Sequences, FiniteSets, TLC

NULL == "null"

(* ------------------------------ bounds -------------------------------- *)
\* service days 1..MaxDay
MaxDay == 2
\* total number of check-in requests started in one behaviour
MaxCheckIns == 2

\* concurrently running request handlers
Procs == {"r1", "r2"}
\* patient identifiers
Patients == {"p1", "p2"}
\* the staff member performing check-ins (req.user._id)
Staff == "u9"

(* ------------------------------- state -------------------------------- *)
VARIABLES
    day,          \* the current service day (Date.now truncated to midnight)
    users,        \* the User collection
    patients,     \* the Patient collection
    queue,        \* the Queue collection
    appointments, \* the Appointment collection
    strictQuery,  \* mongoose's strictQuery setting of the deployed build
    req,          \* the request handlers in flight
    started,      \* number of check-in requests started so far
    issued,       \* history: the queue numbers stored, in order of storing, each with
                  \* the day for which the pre-save hook computed it
    removed,      \* history: a queue entry has been deleted
    rejected,     \* history: the unique index has rejected an insert
    sel,          \* the last stand-alone call of findBestDoctor with its inputs
    ana,          \* the last stand-alone call of analyzeSymptoms: its argument and result
    ops,          \* the handlers of the queue-desk and appointment routes in flight
    hist          \* history of those routes: requests started, and what they did

vars == <<day, users, patients, queue, appointments, strictQuery, req, started, issued,
          removed, rejected, sel, ana, ops, hist>>

(* --------------------------- symptom texts ---------------------------- *)
Upper == <<"A","B","C","D","E","F","G","H","I","J","K","L","M","N","O","P","Q","R","S","T","U","V","W","X","Y","Z">>
Lower == <<"a","b","c","d","e","f","g","h","i","j","k","l","m","n","o","p","q","r","s","t","u","v","w","x","y","z">>

\* String.prototype.toLowerCase on one character
LowerChar(c) ==
    IF \E i \in 1..Len(Upper) : Upper[i] = c
    THEN Lower[CHOOSE i \in 1..Len(Upper) : Upper[i] = c]
    ELSE c

\* variant of analyzeSymptoms that matches the text as given, without toLowerCase
toLowerCase_AsGiven(s) == s

\* String.prototype.toLowerCase
toLowerCase(s) == SubSeq([i \in 1..Len(s) |-> LowerChar(s[i])], 1, Len(s))

\* String.prototype.includes
includes(s, sub) ==
    \E i \in 0..(Len(s) - Len(sub)) : SubSeq(s, i + 1, i + Len(sub)) = sub

\* the rows of SYMPTOM_SPECIALIZATION_MAP the model keeps, in source order
SYMPTOM_SPECIALIZATION_MAP ==
    << [symptom |-> <<"c","h","e","s","t"," ","p","a","i","n">>,
        specs   |-> <<"cardiology", "emergency">>],
       [symptom |-> <<"s","k","i","n"," ","r","a","s","h">>,
        specs   |-> <<"dermatology">>],
       [symptom |-> <<"s","e","v","e","r","e"," ","p","a","i","n">>,
        specs   |-> <<"emergency">>],
       [symptom |-> <<"f","e","v","e","r">>,
        specs   |-> <<"internal-medicine", "infectious-disease">>],
       [symptom |-> <<"i","n","f","e","c","t","i","o","n">>,
        specs   |-> <<"infectious-disease", "internal-medicine">>] >>

\* the rows of SYMPTOM_PRIORITY, in source order, with the keywords the model keeps
SYMPTOM_PRIORITY ==
    << [level |-> "emergency",
        keywords |-> << <<"s","e","v","e","r","e"," ","p","a","i","n">>,
                        <<"c","h","e","s","t"," ","p","a","i","n">> >>],
       [level |-> "high",
        keywords |-> << <<"h","i","g","h"," ","f","e","v","e","r">> >>],
       [level |-> "medium",
        keywords |-> << <<"f","e","v","e","r">>,
                        <<"i","n","f","e","c","t","i","o","n">> >>],
       [level |-> "low",
        keywords |-> << <<"f","o","l","l","o","w","-","u","p">> >>] >>

\* the symptom texts patients report
Texts ==
    << <<"C","h","e","s","t"," ","P","a","i","n">>,
       <<"f","e","e","l"," ","u","n","w","e","l","l">>,
       <<"h","i","g","h"," ","f","e","v","e","r">>,
       <<"i","n","f","e","c","t","i","o","n","s">> >>

TextIds == 1..Len(Texts)

\* the texts patients register with
IntakeTexts == {1, 2}

\* Set.add of every element of xs, keeping insertion order
RECURSIVE AddAll(_, _)
AddAll(acc, xs) ==
    IF xs = <<>> THEN acc
    ELSE AddAll(IF \E i \in 1..Len(acc) : acc[i] = Head(xs) THEN acc ELSE Append(acc, Head(xs)),
                Tail(xs))

\* variant of the forEach that assigns a matched row's tags instead of adding them
RECURSIVE MatchTable_Assign(_, _, _, _)
MatchTable_Assign(lower, k, matched, specs) ==
    IF k > Len(SYMPTOM_SPECIALIZATION_MAP) THEN [matchedSymptoms |-> matched, specs |-> specs]
    ELSE LET row == SYMPTOM_SPECIALIZATION_MAP[k]
         IN  IF includes(lower, row.symptom)
             THEN MatchTable_Assign(lower, k + 1, Append(matched, row.symptom), row.specs)
             ELSE MatchTable_Assign(lower, k + 1, matched, specs)

\* the forEach over the symptom table: matched phrases and the union of their tags
RECURSIVE MatchTable(_, _, _, _)
MatchTable(lower, k, matched, specs) ==
    IF k > Len(SYMPTOM_SPECIALIZATION_MAP) THEN [matchedSymptoms |-> matched, specs |-> specs]
    ELSE LET row == SYMPTOM_SPECIALIZATION_MAP[k]
         IN  IF includes(lower, row.symptom)
             THEN MatchTable(lower, k + 1, Append(matched, row.symptom), AddAll(specs, row.specs))
             ELSE MatchTable(lower, k + 1, matched, specs)

\* variant of the priority loop without the break after a row: the last row
\* with a keyword in the text decides
RECURSIVE ScanPriority_NoBreak(_, _)
ScanPriority_NoBreak(lower, k) ==
    IF k > Len(SYMPTOM_PRIORITY) THEN "low"
    ELSE LET hits(n) == \E j \in 1..Len(SYMPTOM_PRIORITY[n].keywords) :
                           includes(lower, SYMPTOM_PRIORITY[n].keywords[j])
         IN  IF \E n \in (k + 1)..Len(SYMPTOM_PRIORITY) : hits(n)
             THEN ScanPriority_NoBreak(lower, k + 1)
             ELSE IF hits(k) THEN SYMPTOM_PRIORITY[k].level ELSE "low"

\* variant of the priority loop whose priority starts undefined: the loop ends
\* after the first row
ScanPriority_NoInitial(lower, k) ==
    IF \E j \in 1..Len(SYMPTOM_PRIORITY[k].keywords) : includes(lower, SYMPTOM_PRIORITY[k].keywords[j])
    THEN SYMPTOM_PRIORITY[k].level
    ELSE NULL

\* the priority loop: rows in order, stop at the first row that changes priority
RECURSIVE ScanPriority(_, _)
ScanPriority(lower, k) ==
    IF k > Len(SYMPTOM_PRIORITY) THEN "low"
    ELSE LET row == SYMPTOM_PRIORITY[k]
             hit == \E j \in 1..Len(row.keywords) : includes(lower, row.keywords[j])
             priority == IF hit THEN row.level ELSE "low"
         IN  IF priority # "low" THEN priority ELSE ScanPriority(lower, k + 1)

\* variant of analyzeSymptoms whose matchedSymptoms array is declared at module
\* level and so keeps the phrases matched by the calls made before
analyzeSymptoms_SharedMatches(symptoms) ==
    LET symptomsLower == toLowerCase(symptoms)
        m == MatchTable(symptomsLower, 1, <<>>, <<>>)
        kept == IF ana = <<>> THEN <<>>
                ELSE (IF ana[1].result = <<>> THEN <<>> ELSE ana[1].result[1].matchedSymptoms)
                     \o (IF ana[1].other = <<>> THEN <<>> ELSE ana[1].other[1].matchedSymptoms)
    IN  [specializations |-> IF Len(m.specs) = 0 THEN <<"internal-medicine">> ELSE m.specs,
         priority        |-> ScanPriority(symptomsLower, 1),
         matchedSymptoms |-> kept \o m.matchedSymptoms,
         confidence      |-> IF Len(kept \o m.matchedSymptoms) > 0 THEN "high" ELSE "low"]

\* variant of analyzeSymptoms without the internal-medicine default
analyzeSymptoms_NoDefault(symptoms) ==
    LET symptomsLower == toLowerCase(symptoms)
        m == MatchTable(symptomsLower, 1, <<>>, <<>>)
    IN  [specializations |-> m.specs,
         priority        |-> ScanPriority(symptomsLower, 1),
         matchedSymptoms |-> m.matchedSymptoms,
         confidence      |-> IF Len(m.matchedSymptoms) > 0 THEN "high" ELSE "low"]

\* analyzeSymptoms
analyzeSymptoms(symptoms) ==
    LET symptomsLower == toLowerCase(symptoms)
        m == MatchTable(symptomsLower, 1, <<>>, <<>>)
    IN  [specializations |-> IF Len(m.specs) = 0 THEN <<"internal-medicine">> ELSE m.specs,
         priority        |-> ScanPriority(symptomsLower, 1),
         matchedSymptoms |-> m.matchedSymptoms,
         confidence      |-> IF Len(m.matchedSymptoms) > 0 THEN "high" ELSE "low"]

\* analyzeSymptoms of every text of Texts
Analysis ==
    << analyzeSymptoms(Texts[1]), analyzeSymptoms(Texts[2]),
       analyzeSymptoms(Texts[3]), analyzeSymptoms(Texts[4]) >>

\* Array.prototype.includes on a list of tags
Has(list, x) == \E i \in 1..Len(list) : list[i] = x



Doctors == {"d1", "d2", "d3"}
UserIds == Doctors \cup {Staff}

\* the fixed part of the user directory
UserProfile(u) ==
    CASE u = "d1" -> [role |-> "doctor", department |-> "cardiology",
                      specializations |-> <<"emergency">>]
      [] u = "d2" -> [role |-> "doctor", department |-> "internal-medicine",
                      specializations |-> <<>>]
      [] u = "d3" -> [role |-> "doctor", department |-> "dermatology",
                      specializations |-> <<"infectious-disease">>]
      [] OTHER    -> [role |-> "reception", department |-> "internal-medicine",
                      specializations |-> <<>>]

(* ------------------------------ scoring ------------------------------- *)
ActiveStatuses == {"waiting", "in-progress"}

\* a Queue filter on the key doctorId, which queueSchema does not define: with
\* strictQuery the key is stripped from the filter, without it the key is sent to
\* the database, where no stored queue document carries a doctorId field
MatchesDoctorIdKey(e, doctorId) == strictQuery

\* Queue.countDocuments({ doctorId, status: { $in: ['waiting', 'in-progress'] } })
QueueCount(doctorId) ==
    Cardinality({e \in queue : MatchesDoctorIdKey(e, doctorId) /\ e.status \in ActiveStatuses})

\* Appointment.countDocuments({ doctorId, appointmentDate: today..tomorrow, status: ... })
TodayAppointments(doctorId) ==
    Cardinality({a \in appointments :
                    /\ a.doctorId = doctorId
                    /\ a.day = day
                    /\ a.status \in {"scheduled", "confirmed", "in-progress"}})

\* variant of calculateDoctorWorkload whose catch block returns 0 instead of 999
calculateDoctorWorkload_ZeroOnError(doctorId, failed) ==
    IF failed THEN 0
    ELSE (QueueCount(doctorId) * 2) + TodayAppointments(doctorId)

\* failed: one of the two count queries threw
calculateDoctorWorkload(doctorId, failed) ==
    IF failed THEN 999
    ELSE (QueueCount(doctorId) * 2) + TodayAppointments(doctorId)

\* failed: the find threw
getAverageWaitTime(doctorId, failed) ==
    LET queueEntries == {e \in queue : MatchesDoctorIdKey(e, doctorId) /\ e.status = "waiting"}
    IN  IF failed THEN 999
        ELSE IF Cardinality(queueEntries) = 0 THEN 0
        ELSE Cardinality(queueEntries) * 15

\* variant of the priorityMultiplier chain with the tiers of high and low exchanged
PriorityMultiplier10_Exchanged(priority) ==
    IF priority = "emergency" THEN 1
    ELSE IF priority = "low" THEN 5
    ELSE IF priority = "medium" THEN 10 ELSE 15

\* ten times the priorityMultiplier 0.1, 0.5, 1, 1.5
PriorityMultiplier10(priority) ==
    IF priority = "emergency" THEN 1
    ELSE IF priority = "high" THEN 5
    ELSE IF priority = "medium" THEN 10 ELSE 15

\* number of the doctor's specializations that the request lists
SpecializationHits(doctor, specializations) ==
    Cardinality({i \in 1..Len(doctor.specializations) : Has(specializations, doctor.specializations[i])})

specializationScore(doctor, specializations) ==
    (IF doctor.department # NULL /\ Has(specializations, doctor.department) THEN 10 ELSE 0)
    + SpecializationHits(doctor, specializations) * 5

\* 150 times (workload + waitTime / 15) * priorityMultiplier - specializationScore,
\* an integer: the order of two scores is the order of their 150-fold values
finalScore(workload, waitTime, priority, specScore) ==
    (15 * workload + waitTime) * PriorityMultiplier10(priority) - 150 * specScore

\* variant of the User.find filter without the role condition
IsAvailableDoctor_AnyRole(u, specializations) ==
    /\ users[u].isActive
    /\ \/ Has(specializations, users[u].department)
       \/ \E i \in 1..Len(users[u].specializations) : Has(specializations, users[u].specializations[i])
       \/ users[u].department = "internal-medicine"

\* the filter of User.find in findBestDoctor
IsAvailableDoctor(u, specializations) ==
    /\ users[u].role = "doctor"
    /\ users[u].isActive
    /\ \/ Has(specializations, users[u].department)
       \/ \E i \in 1..Len(users[u].specializations) : Has(specializations, users[u].specializations[i])
       \/ users[u].department = "internal-medicine"

\* one element of doctorScores
ScoreOf(u, specializations, priority, failW, failT) ==
    LET workload == calculateDoctorWorkload(u, u \in failW)
        waitTime == getAverageWaitTime(u, u \in failT)
        sscore   == specializationScore(users[u], specializations)
    IN  [doctor |-> u, workload |-> workload, waitTime |-> waitTime,
         specializationScore |-> sscore,
         finalScore |-> finalScore(workload, waitTime, priority, sscore)]

\* availableDoctors.map(...): the scores in the order of the list
RECURSIVE ScoreAll(_, _, _, _, _)
ScoreAll(list, specializations, priority, failW, failT) ==
    IF list = <<>> THEN <<>>
    ELSE <<ScoreOf(Head(list), specializations, priority, failW, failT)>>
         \o ScoreAll(Tail(list), specializations, priority, failW, failT)

\* variant of the sort with the comparator reversed: b.finalScore - a.finalScore
FirstAfterSort_Descending(scores) ==
    CHOOSE i \in 1..Len(scores) :
        \A j \in 1..Len(scores) :
            \/ scores[i].finalScore > scores[j].finalScore
            \/ scores[i].finalScore = scores[j].finalScore /\ i <= j

\* position of the first element of a stable ascending sort by finalScore
FirstAfterSort(scores) ==
    CHOOSE i \in 1..Len(scores) :
        \A j \in 1..Len(scores) :
            \/ scores[i].finalScore < scores[j].finalScore
            \/ scores[i].finalScore = scores[j].finalScore /\ i <= j

\* the users matched by User.find({ role: 'doctor', isActive: true, $or: [...] })
availableDoctors(specializations) ==
    {u \in DOMAIN users : IsAvailableDoctor(u, specializations)}

\* the orders in which a find() can return the documents it matches
ResultOrders(matched) ==
    {o \in [1..Cardinality(matched) -> matched] : \A u \in matched : \E i \in DOMAIN o : o[i] = u}

\* the possible results of that User.find
AvailableDoctorLists(specializations) == ResultOrders(availableDoctors(specializations))

\* the elements of a list
Range(list) == {list[i] : i \in 1..Len(list)}

NoDoctorsMessage == "No available doctors found for the required specializations"

\* variant of findBestDoctor without the empty-list check: scoredDoctors[0] is
\* read from an empty array
findBestDoctor_NoEmptyCheck(specializations, priority, available, failW, failT) ==
    LET doctorScores == ScoreAll(available, specializations, priority, failW, failT)
    IN  IF Len(available) = 0
        THEN [error |-> NULL, doctor |-> NULL, workload |-> 0,
              estimatedWaitTime |-> 0, doctorScores |-> <<>>]
        ELSE LET bestMatch == doctorScores[FirstAfterSort(doctorScores)]
             IN  [error |-> NULL, doctor |-> bestMatch.doctor, workload |-> bestMatch.workload,
                  estimatedWaitTime |-> bestMatch.waitTime, doctorScores |-> doctorScores]

\* findBestDoctor once User.find has returned available;
\* failW, failT: the doctors whose workload / wait-time queries throw
findBestDoctor(specializations, priority, available, failW, failT) ==
    LET doctorScores == ScoreAll(available, specializations, priority, failW, failT)
    IN  IF Len(available) = 0
        THEN [error |-> NoDoctorsMessage, doctor |-> NULL, workload |-> 0,
              estimatedWaitTime |-> 0, doctorScores |-> <<>>]
        ELSE LET bestMatch == doctorScores[FirstAfterSort(doctorScores)]
             IN  [error |-> NULL, doctor |-> bestMatch.doctor, workload |-> bestMatch.workload,
                  estimatedWaitTime |-> bestMatch.waitTime, doctorScores |-> doctorScores]

\* what findBestDoctor can return to one caller: its result without the scores,
\* over all orders of the collection and all failing count queries
BestDoctorResults(symptomAnalysis) ==
    {[error |-> b.error, doctor |-> b.doctor, workload |-> b.workload,
      estimatedWaitTime |-> b.estimatedWaitTime] :
        b \in UNION {UNION {{findBestDoctor(symptomAnalysis.specializations, symptomAnalysis.priority,
                                            available, failW, failT) :
                                failW \in SUBSET Range(available)} :
                             failT \in SUBSET Range(available)} :
                      available \in AvailableDoctorLists(symptomAnalysis.specializations)}}

(* --------------------------- the Queue model -------------------------- *)
\* Date.prototype.getTime of an instant of the given day, in milliseconds
getTime(d) == d * 86400000

\* variant of the schema in which checkedInBy is not required
RequiredPathsPresent_CheckedInByOptional(doc) ==
    /\ doc.patientId # NULL
    /\ doc.queueNumber >= 0
    /\ doc.symptoms \in TextIds

\* the required paths of queueSchema: patientId, queueNumber, checkedInBy, symptoms
RequiredPathsPresent(doc) ==
    /\ doc.patientId # NULL
    /\ doc.queueNumber >= 0
    /\ doc.checkedInBy # NULL
    /\ doc.symptoms \in TextIds

\* variant of the pre-save hook that writes lastQueue.queueNumber + 2
NextQueueNumber_PlusTwo ==
    LET todays == {e \in queue : e.checkedInAt >= day}
    IN  IF todays = {} THEN 1
        ELSE (CHOOSE n \in {e.queueNumber : e \in todays} :
                 \A e \in todays : e.queueNumber <= n) + 2

\* findOne({ checkedInAt: { $gte: today } }).sort({ queueNumber: -1 }), then the
\* number the pre-save hook writes into a new document
NextQueueNumber ==
    LET todays == {e \in queue : e.checkedInAt >= day}
    IN  IF todays = {} THEN 1
        ELSE (CHOOSE n \in {e.queueNumber : e \in todays} :
                 \A e \in todays : e.queueNumber <= n) + 1

\* variant of the schema without unique: true on queueNumber
DuplicateKey_NoIndex(doc) == FALSE

\* the unique index on queueNumber rejects the insert
DuplicateKey(doc) == \E e \in queue : e.queueNumber = doc.queueNumber

\* the catch block of assignDoctorToPatient:
\* throw new Error(`Doctor assignment failed: ${error.message}`)
AssignmentError(message) == <<"Doctor assignment failed", message>>

\* variant of assignDoctorToPatient whose catch block returns the assignment
\* instead of rethrowing
assignmentOutcome_NoRethrow(saveError, doctor, doc) ==
    [success |-> TRUE, doctor |-> doctor, queueNumber |-> doc.queueNumber, error |-> <<>>]

\* what assignDoctorToPatient does with the outcome of queueEntry.save():
\* the assignment it returns, or the error it throws
assignmentOutcome(saveError, doctor, doc) ==
    IF saveError = NULL
    THEN [success |-> TRUE, doctor |-> doctor, queueNumber |-> doc.queueNumber, error |-> <<>>]
    ELSE [success |-> FALSE, doctor |-> NULL, queueNumber |-> 0,
          error |-> AssignmentError(saveError)]

(* ------------------------------ requests ------------------------------ *)
\* a handler of the queue-desk or appointment routes that holds no request
IdleOp ==
    [pc |-> "idle", kind |-> "none", id |-> 0, doctorId |-> NULL, doc |-> <<>>,
     pool |-> {}, input |-> NULL, date |-> 0, status |-> 0]

NoOps == [r \in Procs |-> IdleOp]

\* no request of those routes has been made
NoHist == [started |-> 0, manual |-> FALSE, doctorIds |-> {}]

\* the sets of active doctors the directory starts with
ActiveSets == {{}, Doctors}

IdleReq ==
    [pc |-> "idle", kind |-> "none", patient |-> NULL, stage |-> "none",
     doc |-> <<>>, doctor |-> NULL, assignSaveError |-> NULL, assignError |-> <<>>,
     assigned |-> FALSE, saveError |-> NULL, status |-> 0,
     hookSeq |-> 0, hookDay |-> 0, raced |-> FALSE, firstOfDay |-> FALSE, stored |-> 0]

Init ==
    /\ day = 1
    /\ \E act \in ActiveSets :
          users = [u \in UserIds |->
                      [role |-> UserProfile(u).role,
                       isActive |-> (u \in act \/ u = Staff),
                       department |-> UserProfile(u).department,
                       specializations |-> UserProfile(u).specializations]]
    /\ patients = [p \in Patients |-> [exists |-> FALSE, currentSymptoms |-> 1, assignedDoctor |-> NULL]]
    /\ queue = {}
    /\ appointments = {}
    /\ strictQuery \in BOOLEAN
    /\ req = [r \in Procs |-> IdleReq]
    /\ started = 0
    /\ issued = <<>>
    /\ removed = FALSE
    /\ rejected = FALSE
    /\ sel = <<>>
    /\ ana = <<>>
    /\ ops = NoOps
    /\ hist = NoHist

\* POST /api/patients up to the call of assignDoctorToPatient
Register(r, p, t) ==
    /\ req[r].pc \in {"idle", "done"}
    /\ ~patients[p].exists
    /\ patients' = [patients EXCEPT ![p] = [exists |-> TRUE, currentSymptoms |-> t, assignedDoctor |-> NULL]]
    /\ req' = [req EXCEPT ![r] = [IdleReq EXCEPT !.pc = "assign", !.kind = "register", !.patient = p]]
    /\ UNCHANGED <<day, users, queue, appointments, strictQuery, started, issued, removed, rejected, sel, ana, ops, hist>>

\* POST /api/queue/check-in up to the call of assignDoctorToPatient
CheckIn(r, p) ==
    /\ req[r].pc \in {"idle", "done"}
    /\ started < MaxCheckIns
    /\ started' = started + 1
    /\ LET existingQueue == {e \in queue : e.patientId = p /\ e.status \in ActiveStatuses}
           base == [IdleReq EXCEPT !.kind = "checkin", !.patient = p]
       IN  req' = [req EXCEPT ![r] =
                     IF ~patients[p].exists THEN [base EXCEPT !.pc = "done", !.status = 404]
                     ELSE IF existingQueue # {} THEN [base EXCEPT !.pc = "done", !.status = 400]
                     ELSE [base EXCEPT !.pc = "assign"]]
    /\ UNCHANGED <<day, users, patients, queue, appointments, strictQuery, issued, removed, rejected, sel, ana, ops, hist>>

\* document.save() of a new document up to the first database access: mongoose
\* validates the document before any pre('save') hook of the schema runs
BeginSave(rq, stage, doc) ==
    IF RequiredPathsPresent(doc)
    THEN [rq EXCEPT !.pc = "presave", !.stage = stage, !.doc = <<doc>>]
    ELSE [rq EXCEPT !.pc = "failed", !.stage = stage, !.doc = <<>>, !.saveError = "ValidationError"]

\* the routes once assignDoctorToPatient has thrown: registration answers 201,
\* check-in builds its own queue entry and saves it
AssignmentFailed(rq, error) ==
    LET p == rq.patient
        failed == [rq EXCEPT !.assignError = error, !.assigned = FALSE, !.doctor = NULL]
        queueEntry == [patientId |-> p,
                       assignedDoctor |-> patients[p].assignedDoctor,
                       priority |-> "medium",
                       symptoms |-> patients[p].currentSymptoms,
                       queueNumber |-> getTime(day),
                       checkedInBy |-> Staff,
                       checkedInAt |-> day,
                       status |-> "waiting"]
        saving == BeginSave(failed, "fallback", queueEntry)
    IN  IF rq.kind = "register" THEN [failed EXCEPT !.pc = "done", !.status = 201]
        ELSE IF saving.pc = "failed" THEN [saving EXCEPT !.pc = "done", !.status = 500]
        ELSE saving

\* a save() has ended with saveError (NULL: stored): inside assignDoctorToPatient
\* the assignment is returned or the error rethrown, in the check-in route the
\* response is sent
AfterSave(rq, saveError, doc) ==
    LET ended == [rq EXCEPT !.doc = <<>>, !.saveError = NULL]
    IN  IF rq.stage = "assign"
        THEN LET out == assignmentOutcome(saveError, rq.doctor, doc)
                 returned == [ended EXCEPT !.assignSaveError = saveError]
             IN  IF out.error # <<>>
                 THEN AssignmentFailed(returned, out.error)
                 ELSE [returned EXCEPT !.pc = "assigned", !.assigned = TRUE]
        ELSE [ended EXCEPT !.pc = "done", !.saveError = saveError,
                           !.status = IF saveError = NULL THEN 201 ELSE 500]

\* assignDoctorToPatient up to the first database access of queueEntry.save():
\* analyzeSymptoms, findBestDoctor, new Queue, validation
AssignFind(r) ==
    /\ req[r].pc = "assign"
    /\ \E doctorAssignment \in BestDoctorResults(Analysis[patients[req[r].patient].currentSymptoms]) :
          LET symptoms == patients[req[r].patient].currentSymptoms
              symptomAnalysis == Analysis[symptoms]
              queueEntry == [patientId |-> req[r].patient,
                             assignedDoctor |-> doctorAssignment.doctor,
                             priority |-> symptomAnalysis.priority,
                             symptoms |-> symptoms,
                             queueNumber |-> 1,
                             checkedInBy |-> NULL,
                             checkedInAt |-> day,
                             status |-> "waiting"]
              saving == BeginSave([req[r] EXCEPT !.doctor = doctorAssignment.doctor],
                                  "assign", queueEntry)
          IN  req' = [req EXCEPT ![r] =
                        IF doctorAssignment.error # NULL
                        THEN AssignmentFailed(@, AssignmentError(doctorAssignment.error))
                        ELSE IF saving.pc = "failed"
                        THEN AfterSave(saving, saving.saveError, queueEntry)
                        ELSE saving]
    /\ UNCHANGED <<day, users, patients, queue, appointments, strictQuery, started, issued, removed, rejected, sel, ana, ops, hist>>

\* document.save(), queueSchema.pre('save') of a new document
SavePreHook(r) ==
    /\ req[r].pc = "presave"
    /\ req' = [req EXCEPT ![r] = [@ EXCEPT !.pc = "insert",
                                           !.doc = << [@[1] EXCEPT !.queueNumber = NextQueueNumber] >>,
                                           !.hookSeq = Len(issued), !.hookDay = day]]
    /\ UNCHANGED <<day, users, patients, queue, appointments, strictQuery, started, issued, removed, rejected, sel, ana, ops, hist>>

\* the stored form of a saved document
Stored(doc, id, stage) ==
    [id |-> id, via |-> stage, patientId |-> doc.patientId,
     assignedDoctor |-> doc.assignedDoctor, priority |-> doc.priority,
     queueNumber |-> doc.queueNumber, checkedInBy |-> doc.checkedInBy,
     checkedInAt |-> doc.checkedInAt, status |-> doc.status]

\* document.save(), the insert, checked against the unique index on queueNumber,
\* and what the caller does with the outcome; after a successful assignment the
\* routes store the doctor in the patient and check-in completes the queue entry
\* with Queue.findOneAndUpdate({ patientId, queueNumber }, { ..., checkedInBy })
SaveInsert(r) ==
    /\ req[r].pc = "insert"
    /\ LET doc == req[r].doc[1]
           id  == Len(issued) + 1
           first == ~\E i \in 1..Len(issued) : issued[i].day = req[r].hookDay
           dup == DuplicateKey(doc)
           after == [AfterSave(req[r], IF dup THEN "E11000 duplicate key" ELSE NULL, doc) EXCEPT
                        !.firstOfDay = first,
                        !.stored = IF dup THEN 0 ELSE id,
                        !.raced = \E e \in queue : /\ e.queueNumber = doc.queueNumber
                                                   /\ e.id > req[r].hookSeq]
           entry == Stored(doc, id, req[r].stage)
       IN  /\ issued' = IF dup THEN issued
                        ELSE Append(issued, [day |-> req[r].hookDay, n |-> doc.queueNumber])
           /\ rejected' = (rejected \/ dup)
           /\ IF after.pc = "assigned"
              THEN /\ patients' = [patients EXCEPT ![doc.patientId].assignedDoctor = req[r].doctor]
                   /\ queue' = queue \cup {IF req[r].kind = "checkin"
                                           THEN [entry EXCEPT !.checkedInBy = Staff] ELSE entry}
                   /\ req' = [req EXCEPT ![r] = [after EXCEPT !.pc = "done", !.status = 201]]
              ELSE /\ patients' = patients
                   /\ queue' = IF dup THEN queue ELSE queue \cup {entry}
                   /\ req' = [req EXCEPT ![r] = after]
    /\ UNCHANGED <<day, users, appointments, strictQuery, started, removed, sel, ana, ops, hist>>

\* DELETE /api/queue/:id
RemoveEntry(e) ==
    /\ e \in queue
    /\ e.status \in {"waiting", "cancelled"}
    /\ queue' = queue \ {e}
    /\ removed' = TRUE
    /\ UNCHANGED <<day, users, patients, appointments, strictQuery, req, started, issued, rejected, sel, ana, ops, hist>>

\* midnight passes
NewDay ==
    /\ day < MaxDay
    /\ day' = day + 1
    /\ UNCHANGED <<users, patients, queue, appointments, strictQuery, req, started, issued, removed, rejected, sel, ana, ops, hist>>

Next ==
    \/ \E r \in Procs, p \in Patients, t \in IntakeTexts : Register(r, p, t)
    \/ \E r \in Procs, p \in Patients : CheckIn(r, p)
    \/ \E r \in Procs : AssignFind(r)
    \/ \E r \in Procs : SavePreHook(r)
    \/ \E r \in Procs : SaveInsert(r)
    \/ \E e \in queue : RemoveEntry(e)
    \/ NewDay

Spec == Init /\ [][Next]_vars


(* ------------------- findBestDoctor on its own ------------------------ *)
Priorities == {"emergency", "high", "medium", "low"}

\* queue entries a directory lookup can meet
SampleEntry(id, doctor, status) ==
    [id |-> id, via |-> "fallback", patientId |-> "p1", assignedDoctor |-> doctor,
     priority |-> "medium", queueNumber |-> id, checkedInBy |-> Staff,
     checkedInAt |-> 1, status |-> status]

QueueSamples ==
    { {},
      {SampleEntry(1, "d1", "waiting")},
      {SampleEntry(1, "d1", "waiting"), SampleEntry(2, "d2", "in-progress")},
      {SampleEntry(1, "d2", "completed"), SampleEntry(2, "d2", "waiting"),
       SampleEntry(3, NULL, "waiting")} }

\* appointments a directory lookup can meet
AppointmentSamples ==
    { {},
      {[id |-> 1, doctorId |-> "d2", day |-> 1, status |-> "scheduled"]},
      {[id |-> 1, doctorId |-> "d1", day |-> 1, status |-> "confirmed"],
       [id |-> 2, doctorId |-> "d1", day |-> 2, status |-> "scheduled"],
       [id |-> 3, doctorId |-> "d3", day |-> 1, status |-> "cancelled"]} }

\* the directories a lookup can meet: the fixed one, and one in which d3 is a
\* second internal-medicine doctor with the profile of d2
Directories == {"fixed", "two-internists"}

ProfileIn(dir, u) ==
    IF dir = "two-internists" /\ u = "d3" THEN UserProfile("d2") ELSE UserProfile(u)

InitSelect ==
    /\ day = 1
    /\ \E act \in SUBSET Doctors, dir \in Directories :
          users = [u \in UserIds |->
                      [role |-> ProfileIn(dir, u).role,
                       isActive |-> (u \in act \/ u = Staff),
                       department |-> ProfileIn(dir, u).department,
                       specializations |-> ProfileIn(dir, u).specializations]]
    /\ patients = [p \in Patients |-> [exists |-> FALSE, currentSymptoms |-> 1, assignedDoctor |-> NULL]]
    /\ queue \in QueueSamples
    /\ appointments \in AppointmentSamples
    /\ strictQuery \in BOOLEAN
    /\ req = [r \in Procs |-> IdleReq]
    /\ started = 0
    /\ issued = <<>>
    /\ removed = FALSE
    /\ rejected = FALSE
    /\ sel = <<>>
    /\ ana = <<>>
    /\ ops = NoOps
    /\ hist = NoHist

\* one call findBestDoctor(specializations, priority), the specializations being
\* those of an analysed text; a behaviour observes one call against the
\* collections Init chose
Select(t, priority) ==
    /\ sel = <<>>
    /\ \E available \in AvailableDoctorLists(Analysis[t].specializations) :
       \E failW \in SUBSET Range(available), failT \in SUBSET Range(available) :
          sel' = << [specializations |-> Analysis[t].specializations,
                     priority |-> priority,
                     available |-> available, failW |-> failW, failT |-> failT,
                     result |-> findBestDoctor(Analysis[t].specializations, priority,
                                               available, failW, failT)] >>
    /\ UNCHANGED <<day, users, patients, queue, appointments, strictQuery, req, started,
                   issued, removed, rejected, ana, ops, hist>>

NextSelect == \E t \in TextIds, priority \in Priorities : Select(t, priority)

SelectSpec == InitSelect /\ [][NextSelect]_vars

(* ----------------------------- queue desk ------------------------------ *)
\* requests of the queue-desk routes started in one behaviour
MaxOps == 3

\* a waiting entry of the day; checkedInAt counts the instants of check-in
DeskEntry(id, doctor, priority, at) ==
    [SampleEntry(id, doctor, "waiting") EXCEPT !.priority = priority, !.checkedInAt = at]

\* the queues the desk starts with
DeskQueues ==
    { {DeskEntry(1, "d1", "emergency", 1), DeskEntry(2, "d1", "medium", 2),
       DeskEntry(3, "d1", "medium", 3)},
      {DeskEntry(1, "d1", "high", 1), DeskEntry(2, "d1", "low", 2),
       DeskEntry(3, "d2", "high", 3)},
      {DeskEntry(1, "d1", "medium", 2), DeskEntry(2, "d1", "medium", 1)} }

DeskIds == 1..3
\* the doctorId of a call-next body: absent, or a doctor
DeskDoctorIds == {NULL, "d1"}
\* the statuses PUT /:id/status is asked to set
DeskStatuses == {"in-progress", "completed", "cancelled"}

\* position of a priority string in ascending string order
StringRank(priority) ==
    CASE priority = "emergency" -> 1
      [] priority = "high"      -> 2
      [] priority = "low"       -> 3
      [] priority = "medium"    -> 4

\* e1 comes before e2 under sort({ priority: -1, checkedInAt: 1 })
SortsBefore(e1, e2) ==
    \/ StringRank(e1.priority) > StringRank(e2.priority)
    \/ StringRank(e1.priority) = StringRank(e2.priority) /\ e1.checkedInAt < e2.checkedInAt

\* the documents findOne(...).sort({ priority: -1, checkedInAt: 1 }) can return
FirstBySort(matched) == {e \in matched : \A e2 \in matched : ~SortsBefore(e2, e)}

\* the filter of call-next: a status, and the doctor when the body names one
MatchesCall(e, status, doctorId) ==
    e.status = status /\ (doctorId # NULL => e.assignedDoctor = doctorId)

\* document.save() of a loaded document: the modified status is written to the
\* stored document with its _id
WriteStatus(id, status) ==
    {IF e.id = id THEN [e EXCEPT !.status = status] ELSE e : e \in queue}

IsStored(id) == \E e \in queue : e.id = id

InitDesk ==
    /\ day = 1
    /\ users = [u \in UserIds |->
                    [role |-> UserProfile(u).role, isActive |-> TRUE,
                     department |-> UserProfile(u).department,
                     specializations |-> UserProfile(u).specializations]]
    /\ patients = [p \in Patients |-> [exists |-> TRUE, currentSymptoms |-> 1, assignedDoctor |-> NULL]]
    /\ queue \in DeskQueues
    /\ appointments = {}
    /\ strictQuery = FALSE
    /\ req = [r \in Procs |-> IdleReq]
    /\ started = 0
    /\ issued = <<>>
    /\ removed = FALSE
    /\ rejected = FALSE
    /\ sel = <<>>
    /\ ana = <<>>
    /\ ops = NoOps
    /\ hist = NoHist

\* a handler takes a new request
Free(r) == ops[r].pc \in {"idle", "done"} /\ hist.started < MaxOps

\* POST /api/queue/call-next: Queue.findOne(currentQuery)
CallNextFindCurrent(r, doctorId) ==
    /\ Free(r)
    /\ LET matched == {e \in queue : MatchesCall(e, "in-progress", doctorId)}
           base == [IdleOp EXCEPT !.kind = "call-next", !.doctorId = doctorId]
       IN  IF matched = {}
           THEN ops' = [ops EXCEPT ![r] = [base EXCEPT !.pc = "findnext"]]
           ELSE \E currentPatient \in FirstBySort(matched) :
                   ops' = [ops EXCEPT ![r] = [base EXCEPT !.pc = "complete",
                                                          !.id = currentPatient.id,
                                                          !.doc = <<currentPatient>>]]
    /\ hist' = [hist EXCEPT !.started = @ + 1, !.doctorIds = @ \cup {doctorId}]
    /\ UNCHANGED <<day, users, patients, queue, appointments, strictQuery, req, started,
                   issued, removed, rejected, sel, ana>>

\* call-next: currentPatient.save() with status completed
CallNextComplete(r) ==
    /\ ops[r].pc = "complete"
    /\ IF IsStored(ops[r].id)
       THEN /\ queue' = WriteStatus(ops[r].id, "completed")
            /\ ops' = [ops EXCEPT ![r] = [@ EXCEPT !.pc = "findnext", !.doc = <<>>]]
       ELSE /\ queue' = queue
            /\ ops' = [ops EXCEPT ![r] = [@ EXCEPT !.pc = "done", !.status = 500]]
    /\ UNCHANGED <<day, users, patients, appointments, strictQuery, req, started,
                   issued, removed, rejected, sel, ana, hist>>

\* call-next: Queue.findOne(nextQuery)
CallNextFindNext(r) ==
    /\ ops[r].pc = "findnext"
    /\ LET matched == {e \in queue : MatchesCall(e, "waiting", ops[r].doctorId)}
       IN  IF matched = {}
           THEN ops' = [ops EXCEPT ![r] = [@ EXCEPT !.pc = "done", !.status = 404]]
           ELSE \E nextPatient \in FirstBySort(matched) :
                   ops' = [ops EXCEPT ![r] = [@ EXCEPT !.pc = "mark", !.id = nextPatient.id,
                                                       !.doc = <<nextPatient>>,
                                                       !.pool = matched]]
    /\ UNCHANGED <<day, users, patients, queue, appointments, strictQuery, req, started,
                   issued, removed, rejected, sel, ana, hist>>

\* call-next: nextPatient.save() with status in-progress
CallNextMark(r) ==
    /\ ops[r].pc = "mark"
    /\ IF IsStored(ops[r].id)
       THEN /\ queue' = WriteStatus(ops[r].id, "in-progress")
            /\ ops' = [ops EXCEPT ![r] = [@ EXCEPT !.pc = "done", !.status = 200]]
       ELSE /\ queue' = queue
            /\ ops' = [ops EXCEPT ![r] = [@ EXCEPT !.pc = "done", !.status = 500]]
    /\ UNCHANGED <<day, users, patients, appointments, strictQuery, req, started,
                   issued, removed, rejected, sel, ana, hist>>

\* PUT /api/queue/:id/status: Queue.findById
StatusFind(r, id, status) ==
    /\ Free(r)
    /\ LET base == [IdleOp EXCEPT !.kind = "status", !.id = id, !.input = status]
       IN  IF IsStored(id)
           THEN ops' = [ops EXCEPT ![r] = [base EXCEPT !.pc = "status-save"]]
           ELSE ops' = [ops EXCEPT ![r] = [base EXCEPT !.pc = "done", !.status = 404]]
    /\ hist' = [hist EXCEPT !.started = @ + 1]
    /\ UNCHANGED <<day, users, patients, queue, appointments, strictQuery, req, started,
                   issued, removed, rejected, sel, ana>>

\* PUT /:id/status: queueEntry.status = status; queueEntry.save()
StatusSave(r) ==
    /\ ops[r].pc = "status-save"
    /\ IF IsStored(ops[r].id)
       THEN /\ queue' = WriteStatus(ops[r].id, ops[r].input)
            /\ ops' = [ops EXCEPT ![r] = [@ EXCEPT !.pc = "done", !.status = 200]]
            /\ hist' = [hist EXCEPT !.manual = @ \/ ops[r].input = "in-progress"]
       ELSE /\ queue' = queue
            /\ ops' = [ops EXCEPT ![r] = [@ EXCEPT !.pc = "done", !.status = 500]]
            /\ hist' = hist
    /\ UNCHANGED <<day, users, patients, appointments, strictQuery, req, started,
                   issued, removed, rejected, sel, ana>>

\* DELETE /api/queue/:id: Queue.findById and the test of the loaded status
DeleteFind(r, id) ==
    /\ Free(r)
    /\ LET base == [IdleOp EXCEPT !.kind = "delete", !.id = id]
           found == {e \in queue : e.id = id}
       IN  IF found = {}
           THEN ops' = [ops EXCEPT ![r] = [base EXCEPT !.pc = "done", !.status = 404]]
           ELSE \E queueEntry \in found :
                   IF queueEntry.status \notin {"waiting", "cancelled"}
                   THEN ops' = [ops EXCEPT ![r] = [base EXCEPT !.pc = "done", !.status = 400]]
                   ELSE ops' = [ops EXCEPT ![r] = [base EXCEPT !.pc = "remove",
                                                               !.doc = <<queueEntry>>]]
    /\ hist' = [hist EXCEPT !.started = @ + 1]
    /\ UNCHANGED <<day, users, patients, queue, appointments, strictQuery, req, started,
                   issued, removed, rejected, sel, ana>>

\* DELETE /:id: Queue.findByIdAndDelete(req.params.id)
DeleteRemove(r) ==
    /\ ops[r].pc = "remove"
    /\ queue' = {e \in queue : e.id # ops[r].id}
    /\ ops' = [ops EXCEPT ![r] = [@ EXCEPT !.pc = "done", !.status = 200]]
    /\ UNCHANGED <<day, users, patients, appointments, strictQuery, req, started,
                   issued, removed, rejected, sel, ana, hist>>

NextDesk ==
    \/ \E r \in Procs, doctorId \in DeskDoctorIds : CallNextFindCurrent(r, doctorId)
    \/ \E r \in Procs : CallNextComplete(r)
    \/ \E r \in Procs : CallNextFindNext(r)
    \/ \E r \in Procs : CallNextMark(r)
    \/ \E r \in Procs, id \in DeskIds, status \in DeskStatuses : StatusFind(r, id, status)
    \/ \E r \in Procs : StatusSave(r)
    \/ \E r \in Procs, id \in DeskIds : DeleteFind(r, id)
    \/ \E r \in Procs : DeleteRemove(r)

DeskSpec == InitDesk /\ [][NextDesk]_vars

(* ---------------------------- appointments ----------------------------- *)
\* an appointment: its doctor, its appointmentDate (a day) and its status
Appt(id, doctorId, date, status) ==
    [id |-> id, doctorId |-> doctorId, day |-> date, status |-> status]

\* the appointment books the routes start with
ApptBooks ==
    { {},
      {Appt(1, "d1", 1, "cancelled"), Appt(2, "d1", 1, "scheduled")},
      {Appt(1, "d1", 1, "completed"), Appt(2, "d1", 2, "confirmed")} }

ApptIds == 1..3
ApptDates == 1..2
ApptDoctors == {"d1", "d2"}
\* the statuses PUT /:id/status is asked to set
ApptStatuses == {"scheduled", "confirmed", "completed", "cancelled"}

\* the pre-save hook's findOne: another scheduled or confirmed appointment of
\* the doctor on the date
conflictingAppointment(id, doctorId, date) ==
    {a \in appointments : /\ a.doctorId = doctorId
                          /\ a.day = date
                          /\ a.status \in {"scheduled", "confirmed"}
                          /\ a.id # id}

\* the _id of a new document
NewApptId == Cardinality(appointments) + 1

InitAppt ==
    /\ day = 1
    /\ users = [u \in UserIds |->
                    [role |-> UserProfile(u).role, isActive |-> TRUE,
                     department |-> UserProfile(u).department,
                     specializations |-> UserProfile(u).specializations]]
    /\ patients = [p \in Patients |-> [exists |-> TRUE, currentSymptoms |-> 1, assignedDoctor |-> NULL]]
    /\ queue = {}
    /\ appointments \in ApptBooks
    /\ strictQuery = FALSE
    /\ req = [r \in Procs |-> IdleReq]
    /\ started = 0
    /\ issued = <<>>
    /\ removed = FALSE
    /\ rejected = FALSE
    /\ sel = <<>>
    /\ ana = <<>>
    /\ ops = NoOps
    /\ hist = NoHist

\* the frame of a step that reads the appointments
ApptRead(r, op) ==
    /\ ops' = [ops EXCEPT ![r] = op]
    /\ UNCHANGED <<day, users, patients, queue, appointments, strictQuery, req, started,
                   issued, removed, rejected, sel, ana>>

\* the frame of a step of a request in flight that writes the appointments
ApptWrite(r, op, book) ==
    /\ ops' = [ops EXCEPT ![r] = op]
    /\ appointments' = book
    /\ UNCHANGED <<day, users, patients, queue, strictQuery, req, started,
                   issued, removed, rejected, sel, ana, hist>>

\* POST /api/appointments: new Appointment, and the pre-save hook's conflict query
CreateCheck(r, doctorId, date) ==
    /\ Free(r)
    /\ users[doctorId].role = "doctor"
    /\ LET base == [IdleOp EXCEPT !.kind = "create", !.doctorId = doctorId, !.date = date]
       IN  IF conflictingAppointment(0, doctorId, date) # {}
           THEN ApptRead(r, [base EXCEPT !.pc = "done", !.status = 500])
           ELSE ApptRead(r, [base EXCEPT !.pc = "insert"])
    /\ hist' = [hist EXCEPT !.started = @ + 1]

\* POST /: the insert of appointment.save()
CreateInsert(r) ==
    /\ ops[r].pc = "insert"
    /\ ApptWrite(r, [ops[r] EXCEPT !.pc = "done", !.id = NewApptId, !.status = 201],
                 appointments \cup {Appt(NewApptId, ops[r].doctorId, ops[r].date, "scheduled")})

\* PUT /api/appointments/:id: findById, the completed test, the fields set
UpdateFind(r, id, date) ==
    /\ Free(r)
    /\ LET base == [IdleOp EXCEPT !.kind = "update", !.id = id, !.date = date]
           found == {a \in appointments : a.id = id}
       IN  IF found = {}
           THEN ApptRead(r, [base EXCEPT !.pc = "done", !.status = 404])
           ELSE \E appointment \in found :
                   IF appointment.status = "completed"
                   THEN ApptRead(r, [base EXCEPT !.pc = "done", !.status = 400])
                   ELSE ApptRead(r, [base EXCEPT !.doc = <<appointment>>,
                                                 !.doctorId = appointment.doctorId,
                                                 !.pc = IF date # appointment.day
                                                        THEN "update-check"
                                                        ELSE "update-write"])
    /\ hist' = [hist EXCEPT !.started = @ + 1]

\* PUT /:id: the pre-save hook when appointmentDate is modified
UpdateCheck(r) ==
    /\ ops[r].pc = "update-check"
    /\ IF conflictingAppointment(ops[r].id, ops[r].doctorId, ops[r].date) # {}
       THEN ApptRead(r, [ops[r] EXCEPT !.pc = "done", !.status = 500])
       ELSE ApptRead(r, [ops[r] EXCEPT !.pc = "update-write"])
    /\ hist' = hist

\* PUT /:id: the update of appointment.save(), of the modified paths only
UpdateWrite(r) ==
    /\ ops[r].pc = "update-write"
    /\ ApptWrite(r, [ops[r] EXCEPT !.pc = "done", !.status = 200],
                 IF ops[r].date # ops[r].doc[1].day
                 THEN {IF a.id = ops[r].id THEN [a EXCEPT !.day = ops[r].date] ELSE a
                         : a \in appointments}
                 ELSE appointments)

\* PUT /api/appointments/:id/status: findById
ApptStatusFind(r, id, status) ==
    /\ Free(r)
    /\ LET base == [IdleOp EXCEPT !.kind = "appt-status", !.id = id, !.input = status]
           found == {a \in appointments : a.id = id}
       IN  IF found = {}
           THEN ApptRead(r, [base EXCEPT !.pc = "done", !.status = 404])
           ELSE \E appointment \in found :
                   ApptRead(r, [base EXCEPT !.doc = <<appointment>>, !.pc = "status-write"])
    /\ hist' = [hist EXCEPT !.started = @ + 1]

\* PUT /:id/status: appointment.status = status; appointment.save()
ApptStatusWrite(r) ==
    /\ ops[r].pc = "status-write"
    /\ ApptWrite(r, [ops[r] EXCEPT !.pc = "done", !.status = 200],
                 IF ops[r].input # ops[r].doc[1].status
                 THEN {IF a.id = ops[r].id THEN [a EXCEPT !.status = ops[r].input] ELSE a
                         : a \in appointments}
                 ELSE appointments)

\* DELETE /api/appointments/:id: findById and the completed test
CancelFind(r, id) ==
    /\ Free(r)
    /\ LET base == [IdleOp EXCEPT !.kind = "cancel", !.id = id, !.input = "cancelled"]
           found == {a \in appointments : a.id = id}
       IN  IF found = {}
           THEN ApptRead(r, [base EXCEPT !.pc = "done", !.status = 404])
           ELSE \E appointment \in found :
                   IF appointment.status = "completed"
                   THEN ApptRead(r, [base EXCEPT !.pc = "done", !.status = 400])
                   ELSE ApptRead(r, [base EXCEPT !.doc = <<appointment>>, !.pc = "cancel-write"])
    /\ hist' = [hist EXCEPT !.started = @ + 1]

\* DELETE /:id: appointment.status = 'cancelled'; appointment.save()
CancelWrite(r) ==
    /\ ops[r].pc = "cancel-write"
    /\ ApptWrite(r, [ops[r] EXCEPT !.pc = "done", !.status = 200],
                 IF ops[r].doc[1].status # "cancelled"
                 THEN {IF a.id = ops[r].id THEN [a EXCEPT !.status = "cancelled"] ELSE a
                         : a \in appointments}
                 ELSE appointments)

NextAppt ==
    \/ \E r \in Procs, doctorId \in ApptDoctors, date \in ApptDates : CreateCheck(r, doctorId, date)
    \/ \E r \in Procs : CreateInsert(r)
    \/ \E r \in Procs, id \in ApptIds, date \in ApptDates : UpdateFind(r, id, date)
    \/ \E r \in Procs : UpdateCheck(r)
    \/ \E r \in Procs : UpdateWrite(r)
    \/ \E r \in Procs, id \in ApptIds, status \in ApptStatuses : ApptStatusFind(r, id, status)
    \/ \E r \in Procs : ApptStatusWrite(r)
    \/ \E r \in Procs, id \in ApptIds : CancelFind(r, id)
    \/ \E r \in Procs : CancelWrite(r)

ApptSpec == InitAppt /\ [][NextAppt]_vars

(* ------------------------ symptom analysis alone ----------------------- *)
\* the most pieces a symptom text is put together from
MaxPieces == 2

\* the pieces of the symptom texts handed to analyzeSymptoms
Pieces ==
    { <<"c","h","e","s","t"," ","p","a","i","n">>,
      <<"C","H","E","S","T"," ","P","A","I","N">>,
      <<"C","h","e","s","t"," ","P","a","i","n">>,
      <<"c","H","e","S","t"," ","p","A","i","N">>,
      <<"c","h","e","s","t">>,
      <<"p","a","i","n">>,
      <<" ">>,
      <<"s">>,
      <<"f","e","v","e","r">>,
      <<"h","i","g","h"," ","f","e","v","e","r">>,
      <<"s","k","i","n"," ","r","a","s","h">>,
      <<"i","n","f","e","c","t","i","o","n">>,
      <<"s","e","v","e","r","e"," ","p","a","i","n">>,
      <<"f","o","l","l","o","w","-","u","p">>,
      <<" ","a","n","d"," ">>,
      <<"u","n","w","e","l","l">> }

\* the texts of at most n pieces, the empty string among them
RECURSIVE TextsOf(_)
TextsOf(n) ==
    IF n = 0 THEN { <<>> }
    ELSE LET shorter == TextsOf(n - 1)
         IN  shorter \cup {t \o piece : t \in shorter, piece \in Pieces}

InitAnalyze ==
    /\ day = 1
    /\ users = [u \in UserIds |->
                    [role |-> UserProfile(u).role, isActive |-> TRUE,
                     department |-> UserProfile(u).department,
                     specializations |-> UserProfile(u).specializations]]
    /\ patients = [p \in Patients |-> [exists |-> FALSE, currentSymptoms |-> 1, assignedDoctor |-> NULL]]
    /\ queue = {}
    /\ appointments = {}
    /\ strictQuery = FALSE
    /\ req = [r \in Procs |-> IdleReq]
    /\ started = 0
    /\ issued = <<>>
    /\ removed = FALSE
    /\ rejected = FALSE
    /\ sel = <<>>
    /\ ops = NoOps
    /\ hist = NoHist
    /\ \E symptoms \in TextsOf(MaxPieces) :
          ana = << [symptoms |-> symptoms, result |-> <<>>, other |-> <<>>, again |-> <<>>] >>

\* one call analyzeSymptoms(symptoms)
Analyze ==
    /\ ana[1].result = <<>>
    /\ ana' = << [ana[1] EXCEPT !.result = << analyzeSymptoms(ana[1].symptoms) >>] >>
    /\ UNCHANGED <<day, users, patients, queue, appointments, strictQuery, req, started,
                   issued, removed, rejected, sel, ops, hist>>

\* a call analyzeSymptoms for the text of another patient, made after the first
\* call and before the second
AnalyzeOther(t) ==
    /\ ana[1].result # <<>>
    /\ ana[1].other = <<>>
    /\ ana[1].again = <<>>
    /\ ana' = << [ana[1] EXCEPT !.other = << analyzeSymptoms(Texts[t]) >>] >>
    /\ UNCHANGED <<day, users, patients, queue, appointments, strictQuery, req, started,
                   issued, removed, rejected, sel, ops, hist>>

\* a second call analyzeSymptoms(symptoms) with the text of the first
AnalyzeAgain ==
    /\ ana[1].result # <<>>
    /\ ana[1].again = <<>>
    /\ ana' = << [ana[1] EXCEPT !.again = << analyzeSymptoms(ana[1].symptoms) >>] >>
    /\ UNCHANGED <<day, users, patients, queue, appointments, strictQuery, req, started,
                   issued, removed, rejected, sel, ops, hist>>

NextAnalyze ==
    \/ Analyze
    \/ \E t \in TextIds : AnalyzeOther(t)
    \/ AnalyzeAgain

AnalyzeSpec == InitAnalyze /\ [][NextAnalyze]_vars

(* ------------------------------ claims -------------------------------- *)

\* C1: requests that save a new queue entry concurrently on the same service day
\* all succeed and receive pairwise distinct numbers: two saves that have both run
\* the numbering hook for the same day hold different numbers, and no save is
\* rejected because of an entry stored after its own hook ran
C1_ConcurrentSavesDistinct ==
    /\ \A r1, r2 \in Procs :
          (r1 # r2 /\ req[r1].pc = "insert" /\ req[r2].pc = "insert"
             /\ req[r1].hookDay = req[r2].hookDay)
          => req[r1].doc[1].queueNumber # req[r2].doc[1].queueNumber
    /\ \A r \in Procs : ~(req[r].saveError = "E11000 duplicate key" /\ req[r].raced)

\* C2: within one service day every number issued is greater than every number
\* issued earlier that day, whatever creations and deletions are interleaved
C2_StrictlyIncreasing ==
    \A i, j \in 1..Len(issued) :
        (i < j /\ issued[i].day = issued[j].day) => issued[i].n < issued[j].n

\* C3: the first queue entry created on a service day (no other save of that
\* day running beside it) is saved and receives number 1, whatever is stored
\* from earlier days
C3_FirstOfDayIsOne ==
    \A r \in Procs :
        (req[r].pc = "done" /\ req[r].firstOfDay /\ ~req[r].raced)
        => /\ req[r].saveError = NULL
           /\ req[r].stored # 0
           /\ issued[req[r].stored].n = 1

\* the numbers issued for day d
IssuedOn(d) == {issued[i].n : i \in {k \in 1..Len(issued) : issued[k].day = d}}

\* the number of entries created for day d
CreatedOn(d) == Cardinality({k \in 1..Len(issued) : issued[k].day = d})

\* C4: while no queue entry has been deleted and no insert has been rejected,
\* the numbers issued for a day are exactly 1..n, n the number of entries created
\* for that day
C4_NoGaps ==
    (~removed /\ ~rejected) => \A d \in 1..MaxDay : IssuedOn(d) = 1..CreatedOn(d)

\* C4 witness: two entries created on one day, nothing deleted, nothing rejected
C4_Witness ==
    /\ ~removed /\ ~rejected
    /\ \E d \in 1..MaxDay : CreatedOn(d) >= 2

\* C5: when the doctor lookup matches nobody, assignDoctorToPatient ends with the
\* no-available-doctors error in that very step, without having built or saved a
\* queue entry: the store and the issued numbers are unchanged
C5_NoDoctorNoEntry ==
    [][\A r \in Procs :
          (/\ req[r].pc = "assign"
           /\ req'[r] # req[r]
           /\ availableDoctors(Analysis[patients[req[r].patient].currentSymptoms].specializations) = {})
          => /\ req'[r].assignError = AssignmentError(NoDoctorsMessage)
             /\ req'[r].assignSaveError = NULL
             /\ ~req'[r].assigned
             /\ req'[r].stage # "assign"
             /\ queue' = queue
             /\ issued' = issued]_vars

\* C5 witness: an assignment has failed for want of a doctor
C5_Witness ==
    \E r \in Procs : req[r].assignError = AssignmentError(NoDoctorsMessage)

\* C6: when the save of the queue entry fails inside assignDoctorToPatient, the
\* call throws 'Doctor assignment failed', returns no assignment, and the request
\* has stored no queue entry from inside assignDoctorToPatient
C6_NoPartialCommit ==
    \A r \in Procs :
        req[r].assignSaveError # NULL
        => /\ req[r].assignError = AssignmentError(req[r].assignSaveError)
           /\ ~req[r].assigned
           /\ \A e \in queue : e.id = req[r].stored => e.via # "assign"

\* C6 witness: a save inside assignDoctorToPatient has failed
C6_Witness ==
    \E r \in Procs : req[r].assignSaveError # NULL /\ req[r].pc = "done"

\* C7: after a failed assignment, check-in of an existing patient who is not yet
\* queued still answers 201 with a queue entry stored, and registration still
\* answers 201 with the patient stored
C7_FailureNeverBlocks ==
    \A r \in Procs :
        (req[r].pc = "done" /\ req[r].assignError # <<>>)
        => /\ req[r].status = 201
           /\ patients[req[r].patient].exists
           /\ req[r].kind = "checkin" => req[r].stored # 0

\* the doctors of a selection for whom a workload or wait-time query failed
FailedDoctors(s) == s.failW \cup s.failT

\* C8: a doctor for whom a workload or wait-time query failed is never selected
\* while the pool holds another doctor whose queries all succeeded
C8_FailedNeverSelected ==
    \A i \in 1..Len(sel) :
        (sel[i].result.error = NULL /\ Range(sel[i].available) \ FailedDoctors(sel[i]) # {})
        => sel[i].result.doctor \notin FailedDoctors(sel[i])

\* C9: a failing count query does not make findBestDoctor fail: with a non-empty
\* pool it returns a doctor of the pool, every doctor whose workload query failed
\* being scored with workload 999 and every doctor whose wait-time query failed
\* with wait time 999
C9_QueryFailureRecovered ==
    \A i \in 1..Len(sel) :
        LET s == sel[i]
        IN  /\ Len(s.available) > 0 => (s.result.error = NULL /\ s.result.doctor \in Range(s.available))
            /\ Len(s.result.doctorScores) = Len(s.available)
            /\ \A k \in 1..Len(s.result.doctorScores) :
                  LET sc == s.result.doctorScores[k]
                  IN  /\ sc.doctor \in s.failW => sc.workload = 999
                      /\ sc.doctor \in s.failT => sc.waitTime = 999

\* C9 witness: a selection with failed queries has returned a doctor
C9_Witness ==
    \E i \in 1..Len(sel) :
        /\ sel[i].failW # {} /\ sel[i].failT # {}
        /\ sel[i].result.error = NULL

\* the pool as the claim describes it: the active users with role doctor whose
\* department or specializations meet the requested ones, and every active
\* doctor of department internal-medicine
ClaimedPool(specializations) ==
    {u \in UserIds :
        /\ users[u].role = "doctor" /\ users[u].isActive
        /\ \/ users[u].department \in Range(specializations)
           \/ Range(users[u].specializations) \cap Range(specializations) # {}
           \/ users[u].department = "internal-medicine"}

\* C10: the candidates of findBestDoctor are exactly that pool; the call fails
\* with the no-available-doctors error only when no active internal-medicine
\* doctor exists, and a doctor it returns belongs to the pool
C10_PoolAndFallback ==
    \A i \in 1..Len(sel) :
        LET s == sel[i]
            pool == ClaimedPool(s.specializations)
        IN  /\ Range(s.available) = pool
            /\ (\E u \in Doctors : users[u].isActive /\ users[u].department = "internal-medicine")
               => s.result.error = NULL
            /\ s.result.error = NULL => s.result.doctor \in pool
            /\ s.result.error # NULL => (s.result.error = NoDoctorsMessage /\ pool = {})

\* C10 witness: a doctor was returned who matches no requested specialization,
\* the internal-medicine fallback
C10_Witness ==
    \E i \in 1..Len(sel) :
        /\ sel[i].result.error = NULL
        /\ specializationScore(users[sel[i].result.doctor], sel[i].specializations) = 0
        /\ users[sel[i].result.doctor].department = "internal-medicine"

\* the score list entry of the doctor a selection returned
ReturnedScore(s) ==
    s.result.doctorScores[CHOOSE k \in 1..Len(s.result.doctorScores) :
                              s.result.doctorScores[k].doctor = s.result.doctor]

\* C11: the doctor findBestDoctor returns has the minimum final score of the
\* pool: no candidate has a strictly lower final score
C11_ReturnsMinimum ==
    \A i \in 1..Len(sel) :
        sel[i].result.error = NULL
        => \A k \in 1..Len(sel[i].result.doctorScores) :
              ReturnedScore(sel[i]).finalScore <= sel[i].result.doctorScores[k].finalScore

\* C11 witness: a doctor was returned from a pool of three whose final scores
\* are not all equal, and the first of the list was not the one returned
C11_Witness ==
    \E i \in 1..Len(sel) :
        /\ sel[i].result.error = NULL
        /\ Len(sel[i].available) = 3
        /\ sel[i].available[1] # sel[i].result.doctor
        /\ \E k \in 1..3 :
              sel[i].result.doctorScores[k].finalScore > ReturnedScore(sel[i]).finalScore

\* the doctors' ids in ascending order
IdsAscending == <<"d1", "d2", "d3">>

IdRank(u) == CHOOSE k \in 1..Len(IdsAscending) : IdsAscending[k] = u

\* C12: among the candidates sharing the minimum final score findBestDoctor
\* returns the one with the smallest id, and the doctor returned is the same for
\* every order in which the directory query can return the same candidates
C12_TieBrokenById ==
    \A i \in 1..Len(sel) :
        sel[i].result.error = NULL
        => /\ \A k \in 1..Len(sel[i].result.doctorScores) :
                 sel[i].result.doctorScores[k].finalScore = ReturnedScore(sel[i]).finalScore
                 => IdRank(sel[i].result.doctor) <= IdRank(sel[i].result.doctorScores[k].doctor)
           /\ \A other \in ResultOrders(Range(sel[i].available)) :
                 findBestDoctor(sel[i].specializations, sel[i].priority, other,
                                sel[i].failW, sel[i].failT).doctor = sel[i].result.doctor

\* ten times the multiplier the claim gives for an urgency
ClaimedMultiplier10(priority) ==
    CASE priority = "emergency" -> 1
      [] priority = "high"      -> 5
      [] priority = "medium"    -> 10
      [] priority = "low"       -> 15

\* the specialty match the claim gives: 10 for the department, 5 for each
\* secondary specialization requested
ClaimedMatch(u, specializations) ==
    (IF users[u].department \in Range(specializations) THEN 10 ELSE 0)
    + 5 * Cardinality({k \in 1..Len(users[u].specializations) :
                          users[u].specializations[k] \in Range(specializations)})

\* C13: every candidate's final score is (workload + waitTime/15) * m - s with
\* m = 0.1, 0.5, 1.0, 1.5 for emergency, high, medium, low and s the specialty
\* match; workload 8 and wait 45 at medium urgency with s = 0 give 11
\* (both sides taken 150-fold)
C13_FinalScoreFormula ==
    /\ finalScore((3 * 2) + 2, 3 * 15, "medium", 0) = 11 * 150
    /\ \A i \in 1..Len(sel) :
          \A k \in 1..Len(sel[i].result.doctorScores) :
              LET sc == sel[i].result.doctorScores[k]
              IN  /\ sc.specializationScore = ClaimedMatch(sc.doctor, sel[i].specializations)
                  /\ sc.finalScore =
                        (15 * sc.workload + sc.waitTime) * ClaimedMultiplier10(sel[i].priority)
                        - 150 * ClaimedMatch(sc.doctor, sel[i].specializations)

\* C13 witness: a candidate with department and secondary match (s = 15) and a
\* non-zero workload was scored at an urgency other than medium
C13_Witness ==
    \E i \in 1..Len(sel) :
        /\ sel[i].priority # "medium"
        /\ \E k \in 1..Len(sel[i].result.doctorScores) :
              /\ sel[i].result.doctorScores[k].specializationScore = 15
              /\ sel[i].result.doctorScores[k].workload > 0
              /\ sel[i].result.doctorScores[k].workload < 999

\* the stored queue entries assigned to a doctor whose status is waiting or in-progress
ActiveEntriesOf(d) ==
    {e \in queue : e.assignedDoctor = d /\ e.status \in {"waiting", "in-progress"}}

\* the doctor's appointments dated today that are scheduled, confirmed or in progress
AppointmentsTodayOf(d) ==
    {a \in appointments : a.doctorId = d /\ a.day = day
                          /\ a.status \in {"scheduled", "confirmed", "in-progress"}}

\* C14: the workload computed for a doctor whose count queries succeed is twice
\* the number of stored waiting or in-progress queue entries assigned to that doctor
\* plus the number of the doctor's appointments of today that are scheduled,
\* confirmed or in progress
C14_WorkloadCountsOwnEntries ==
    \A i \in 1..Len(sel) :
        \A k \in 1..Len(sel[i].result.doctorScores) :
            LET sc == sel[i].result.doctorScores[k]
            IN  sc.doctor \notin sel[i].failW
                => sc.workload = 2 * Cardinality(ActiveEntriesOf(sc.doctor))
                                 + Cardinality(AppointmentsTodayOf(sc.doctor))

\* C15: the wait time estimated for a doctor whose queries succeed is 15 times
\* the count of active (waiting or in-progress) queue entries that enters the
\* doctor's workload score, hence 0 exactly when that count is 0
C15_WaitIsFifteenPerActiveEntry ==
    \A i \in 1..Len(sel) :
        \A k \in 1..Len(sel[i].result.doctorScores) :
            LET sc == sel[i].result.doctorScores[k]
            IN  sc.doctor \notin sel[i].failT
                => /\ sc.waitTime = 15 * QueueCount(sc.doctor)
                   /\ (sc.waitTime = 0) <=> (QueueCount(sc.doctor) = 0)

\* the character c is the character q of a lower-case phrase in either letter case
SameLetter(c, q) ==
    \/ c = q
    \/ \E k \in 1..Len(Lower) : Lower[k] = q /\ Upper[k] = c

\* the text contains the lower-case phrase, in any letter case
ContainsAnyCase(text, phrase) ==
    \E i \in 0..(Len(text) - Len(phrase)) :
        \A j \in 1..Len(phrase) : SameLetter(text[i + j], phrase[j])

ChestPain == <<"c","h","e","s","t"," ","p","a","i","n">>

\* C16: for every text containing 'chest pain' in any letter case the analysis
\* lists cardiology and emergency among the specialties and has urgency emergency
C16_ChestPain ==
    \A i \in 1..Len(ana) :
        (ana[i].result # <<>> /\ ContainsAnyCase(ana[i].symptoms, ChestPain))
        => /\ "cardiology" \in Range(ana[i].result[1].specializations)
           /\ "emergency" \in Range(ana[i].result[1].specializations)
           /\ ana[i].result[1].priority = "emergency"

\* C16 witness: a text with 'chest pain' in mixed letter case, preceded by other
\* words, has been analysed
C16_Witness ==
    \E i \in 1..Len(ana) :
        /\ ana[i].result # <<>>
        /\ ContainsAnyCase(ana[i].symptoms, ChestPain)
        /\ ~includes(ana[i].symptoms, ChestPain)
        /\ Len(ana[i].symptoms) > Len(ChestPain)

\* the rows of the symptom table whose phrase the text contains in any letter case
ContainedRows(text) ==
    {k \in 1..Len(SYMPTOM_SPECIALIZATION_MAP) :
        ContainsAnyCase(text, SYMPTOM_SPECIALIZATION_MAP[k].symptom)}

\* C17: for every text that contains no phrase of the symptom table the analysis
\* has the single specialty internal-medicine and confidence low
C17_NoMatchDefault ==
    \A i \in 1..Len(ana) :
        (ana[i].result # <<>> /\ ContainedRows(ana[i].symptoms) = {})
        => /\ ana[i].result[1].specializations = <<"internal-medicine">>
           /\ ana[i].result[1].confidence = "low"

\* C17 witness: a non-empty text without any table phrase has been analysed
C17_Witness ==
    \E i \in 1..Len(ana) :
        /\ ana[i].result # <<>>
        /\ ContainedRows(ana[i].symptoms) = {}
        /\ Len(ana[i].symptoms) > 0

\* the urgency tiers one of whose trigger phrases the text contains in any letter case
TiersHit(text) ==
    {k \in 1..Len(SYMPTOM_PRIORITY) :
        \E j \in 1..Len(SYMPTOM_PRIORITY[k].keywords) :
            ContainsAnyCase(text, SYMPTOM_PRIORITY[k].keywords[j])}

\* C18: the urgency of the analysis is the first tier, in the order emergency,
\* high, medium, low, with a trigger phrase contained in the lower-cased text,
\* and low when no tier has one
C18_FirstTierWins ==
    /\ <<SYMPTOM_PRIORITY[1].level, SYMPTOM_PRIORITY[2].level,
         SYMPTOM_PRIORITY[3].level, SYMPTOM_PRIORITY[4].level>>
       = <<"emergency", "high", "medium", "low">>
    /\ \A i \in 1..Len(ana) :
          ana[i].result # <<>>
          => LET hit == TiersHit(ana[i].symptoms)
             IN  IF hit = {} THEN ana[i].result[1].priority = "low"
                 ELSE ana[i].result[1].priority
                      = SYMPTOM_PRIORITY[CHOOSE k \in hit : \A k2 \in hit : k <= k2].level

\* C18 witness: a text with trigger phrases of two tiers, neither of them the
\* last tier, has been analysed
C18_Witness ==
    \E i \in 1..Len(ana) :
        /\ ana[i].result # <<>>
        /\ Cardinality(TiersHit(ana[i].symptoms) \ {Len(SYMPTOM_PRIORITY)}) >= 2

\* the tags of the table rows whose phrase the text contains
ContainedTags(text) ==
    UNION {Range(SYMPTOM_SPECIALIZATION_MAP[k].specs) : k \in ContainedRows(text)}

\* C19: when the text contains a table phrase, the specialties of the analysis
\* are exactly the union of the tag sets of all contained phrases, each listed
\* once; matchedSymptoms lists the contained phrases in table order; confidence
\* is high if and only if matchedSymptoms is not empty
C19_UnionOfTags ==
    \A i \in 1..Len(ana) :
        ana[i].result # <<>>
        => LET res  == ana[i].result[1]
               rows == ContainedRows(ana[i].symptoms)
           IN  /\ rows # {} => /\ Range(res.specializations) = ContainedTags(ana[i].symptoms)
                               /\ Len(res.specializations) = Cardinality(ContainedTags(ana[i].symptoms))
               /\ Len(res.matchedSymptoms) = Cardinality(rows)
               /\ \A k \in rows :
                     res.matchedSymptoms[Cardinality({k2 \in rows : k2 <= k})]
                     = SYMPTOM_SPECIALIZATION_MAP[k].symptom
               /\ (res.confidence = "high") <=> (Len(res.matchedSymptoms) > 0)

\* C19 witness: a text containing two table phrases with a common tag has been analysed
C19_Witness ==
    \E i \in 1..Len(ana) :
        /\ ana[i].result # <<>>
        /\ \E k1, k2 \in ContainedRows(ana[i].symptoms) :
              /\ k1 # k2
              /\ Range(SYMPTOM_SPECIALIZATION_MAP[k1].specs)
                 \cap Range(SYMPTOM_SPECIALIZATION_MAP[k2].specs) # {}

\* C20: analyzeSymptoms returns for every string, the empty one included, and
\* the analysis has at least one specialty and an urgency among emergency, high,
\* medium, low
C20_AlwaysAnAnalysis ==
    \A i \in 1..Len(ana) :
        LET analysis == IF ana[i].result = <<>> THEN analyzeSymptoms(ana[i].symptoms)
                        ELSE ana[i].result[1]
        IN  /\ Len(analysis.specializations) > 0
            /\ analysis.priority \in {"emergency", "high", "medium", "low"}
            /\ analysis.confidence \in {"high", "low"}

\* C20 witness: the empty string has been analysed
C20_Witness ==
    \E i \in 1..Len(ana) : ana[i].symptoms = <<>> /\ ana[i].result # <<>>

C22_AssignmentSucceeds ==
    \A r \in Procs :
        (req[r].kind # "none" /\ req[r].pc \notin {"idle", "assign"}
           /\ availableDoctors(Analysis[patients[req[r].patient].currentSymptoms].specializations) # {})
        => /\ req[r].assignError = <<>>
           /\ req[r].assignSaveError # "ValidationError"
           /\ req[r].pc = "done" => (req[r].assigned /\ req[r].doctor # NULL)

\* C23: the stored queue entries have pairwise distinct queue numbers
C23_StoredNumbersDistinct ==
    \A e1, e2 \in queue : e1.id # e2.id => e1.queueNumber # e2.queueNumber

\* C23 witness: an insert carrying a queue number held by a stored entry was
\* rejected, and the entry holding the number is still stored
C23_Witness ==
    \E r \in Procs :
        /\ req[r].pc = "done"
        /\ req[r].saveError = "E11000 duplicate key"
        /\ queue # {}

\* the stored entries of a patient that are waiting or in progress
ActiveEntriesOfPatient(p) ==
    {e \in queue : e.patientId = p /\ e.status \in {"waiting", "in-progress"}}

\* C24: no patient has more than one waiting or in-progress queue entry
C24_OneActiveEntryPerPatient ==
    \A p \in Patients : Cardinality(ActiveEntriesOfPatient(p)) <= 1

\* no check-in request for the patient has been made: none is held by a handler
\* and no entry built by the check-in route is stored
NotYetCheckedIn(p) ==
    /\ \A r \in Procs : ~(req[r].kind = "checkin" /\ req[r].patient = p)
    /\ \A e \in queue : ~(e.patientId = p /\ e.via = "fallback")

Urgency(priority) ==
    CASE priority = "emergency" -> 4
      [] priority = "high"      -> 3
      [] priority = "medium"    -> 2
      [] priority = "low"       -> 1

\* e1 is to be called before e2: more urgent, or as urgent and checked in earlier
CalledBefore(e1, e2) ==
    \/ Urgency(e1.priority) > Urgency(e2.priority)
    \/ Urgency(e1.priority) = Urgency(e2.priority) /\ e1.checkedInAt < e2.checkedInAt

\* C26: the entry call-next picks to mark in-progress is, among the waiting
\* entries its query matched, one of the highest urgency (emergency > high >
\* medium > low) and, among those, of the earliest checkedInAt
C26_CallsMostUrgentFirst ==
    \A r \in Procs :
        (ops[r].kind = "call-next" /\ ops[r].pc \in {"mark", "done"} /\ ops[r].pool # {})
            => \A e \in ops[r].pool : ~CalledBefore(e, ops[r].doc[1])

InProgressOf(doctorId) ==
    {e \in queue : e.status = "in-progress" /\ e.assignedDoctor = doctorId}

\* C27: when only call-next with doctorId D has moved entries to in-progress,
\* at most one entry assigned to D is in-progress
C27_OneInProgressPerDoctor ==
    \A D \in Doctors :
        (~hist.manual /\ hist.doctorIds \subseteq {D}) => Cardinality(InProgressOf(D)) <= 1

\* C28: an entry that is in-progress or completed is not removed by the next step
C28_OnlyWaitingOrCancelledDeleted ==
    [][\A e \in queue :
          e.status \in {"in-progress", "completed"} => \E e2 \in queue' : e2.id = e.id]_vars

\* C29: no two distinct appointments of one doctor that are scheduled or
\* confirmed have the same appointmentDate
C29_NoDoubleBooking ==
    \A a, b \in appointments :
        (/\ a.id # b.id
         /\ a.doctorId = b.doctorId
         /\ a.status \in {"scheduled", "confirmed"}
         /\ b.status \in {"scheduled", "confirmed"}) => a.day # b.day

\* C30: a completed appointment is left as it is by the next step
C30_CompletedIsTerminal ==
    [][\A a \in appointments : a.status = "completed" => a \in appointments']_vars

=============================================================================
